---- MODULE Spec2Model ----
(***************************************************************************)
(* Test-Agent: the sandboxed test-execution engine.                        *)
(*                                                                         *)
(*   runner/test_runner.py    TestRunner (construction, run_test, the      *)
(*                            local backend, the sandbox wrapper)          *)
(*   runner/sandbox.py        DockerSandbox (one container per attempt)    *)
(*   runner/error_analyzer.py TestErrorAnalyzer (failure classification)   *)
(*                                                                         *)
(* Text is modelled as a sequence of tokens.  A token is a pair            *)
(* <<class, text>>: a literal piece of text, a piece of text enclosed in   *)
(* single quotes, a newline, or a four-space indentation.  A regular       *)
(* expression  Name: <rest>  searched with re.DOTALL matches a text        *)
(* exactly when the literal token  Name:  occurs in it, and its group      *)
(* <rest> is the text after that token.                                    *)
(*                                                                         *)
(* An Optional value is a sequence of length 0 (None) or 1.                *)
(***************************************************************************)
EXTENDS Integers, Sequences, FiniteSets, TLC

\* ------------------------------------------------------------------ bounds

\* Largest retry budget passed to run_test.
MaxRetries == 3

\* The number of run_single_test tasks, over all run_tests_from_spec calls.
NumTasks == 3

\* The last second the clock reaches.
MaxClock == 1

\* ------------------------------------------------------------- text model

None == <<>>
Some(x) == <<x>>

Lit(s) == <<"lit", s>>
Quoted(s) == <<"quoted", s>>
NL == <<"nl", "\n">>
IND == <<"indent", "    ">>

\* Python truthiness of an Optional[str]: None and the empty string are falsy.
Truthy(opt) == opt # None /\ opt[1] # <<>>

\* `needle in text` for a one-token needle.
Contains(text, tok) == \E i \in 1..Len(text) : text[i] = tok

\* Position of the leftmost occurrence of one of the tokens, 0 when there is none.
FirstIndex(text, toks) ==
    IF \E i \in 1..Len(text) : text[i] \in toks
    THEN CHOOSE i \in 1..Len(text) :
            /\ text[i] \in toks
            /\ \A j \in 1..(i-1) : text[j] \notin toks
    ELSE 0

\* The text after position i: the last group of a pattern matched at i.
Rest(text, i) == SubSeq(text, i + 1, Len(text))

\* ---------------------------------------------------- TestErrorAnalyzer

\* The pattern table, in dictionary (insertion) order.  prefixes are the
\* alternatives of the pattern's name group, each followed by a colon and a space.
ERROR_PATTERNS == <<
    [kind |-> "import_error",
     prefixes |-> {Lit("ImportError: "), Lit("ModuleNotFoundError: ")}],
    [kind |-> "assertion_error", prefixes |-> {Lit("AssertionError: ")}],
    [kind |-> "attribute_error", prefixes |-> {Lit("AttributeError: ")}],
    [kind |-> "type_error",      prefixes |-> {Lit("TypeError: ")}],
    [kind |-> "value_error",     prefixes |-> {Lit("ValueError: ")}],
    [kind |-> "key_error",       prefixes |-> {Lit("KeyError: ")}],
    [kind |-> "does_not_exist",  prefixes |-> {Lit("DoesNotExist: ")}],
    [kind |-> "validation_error", prefixes |-> {Lit("ValidationError: ")}],
    [kind |-> "template_error",  prefixes |-> {Lit("TemplateSyntaxError: ")}],
    [kind |-> "database_error",
     prefixes |-> {Lit("IntegrityError: "), Lit("DatabaseError: "),
                   Lit("OperationalError: ")}] >>

\* The kinds for which the class defines a method _handle_<kind>.
Handlers == {"import_error", "assertion_error", "attribute_error", "validation_error"}

NoAnalysis ==
    [error_type |-> "", error_message |-> <<>>, error_location |-> None,
     suggested_fix |-> None, confidence |-> 0]

\* The outcome of a call that may raise: the exception's class (empty when
\* it returned) and the value returned.
Returned(v) == [exc |-> "", value |-> v]
Raised(e) == [exc |-> e, value |-> NoAnalysis]

\* Lines of a text: the maximal runs of tokens between newlines.
RECURSIVE SplitLines(_)
SplitLines(text) ==
    LET n == FirstIndex(text, {NL})
    IN  IF n = 0 THEN <<text>>
        ELSE <<SubSeq(text, 1, n - 1)>> \o SplitLines(Rest(text, n))

\* line.strip() is non-empty: the line holds something else than whitespace.
NonBlank(line) == \E i \in 1..Len(line) : line[i][1] \notin {"indent", "nl"}

_generic_error_analysis(error_output) ==
    LET all == SplitLines(error_output)
        lines == SelectSeq(all, LAMBDA l : NonBlank(l) /\ l[1] # IND)
        error_line == IF lines # <<>> THEN lines[Len(lines)]
                      ELSE <<Lit("Unknown error")>>
    IN  Returned([error_type |-> "unknown_error",
                  error_message |-> error_line,
                  error_location |-> None,
                  suggested_fix |-> Some(<<Lit("Review the error message and check the relevant code paths.")>>),
                  confidence |-> 50])

\* Position of the text  No module named  directly followed by a quoted
\* name, 0 if there is none.
ModuleMatch(msg) ==
    IF \E i \in 1..(Len(msg) - 1) :
            msg[i] = Lit("No module named ") /\ msg[i+1][1] = "quoted"
    THEN CHOOSE i \in 1..(Len(msg) - 1) :
            /\ msg[i] = Lit("No module named ") /\ msg[i+1][1] = "quoted"
            /\ \A j \in 1..(i-1) :
                 ~(msg[j] = Lit("No module named ") /\ msg[j+1][1] = "quoted")
    ELSE 0

_handle_import_error_generic_hint(error_output, at) ==
    LET error_msg == Rest(error_output, at)
        m == ModuleMatch(error_msg)
    IN  IF m # 0
        THEN Returned([error_type |-> "import_error",
                       error_message |-> <<Lit("Missing module: "), Lit(error_msg[m+1][2])>>,
                       error_location |-> None,
                       suggested_fix |-> Some(<<Lit("Check that the module is installed and in your Python path.")>>),
                       confidence |-> 90])
        ELSE _generic_error_analysis(error_output)

_handle_import_error(error_output, at) ==
    LET error_msg == Rest(error_output, at)
        m == ModuleMatch(error_msg)
    IN  IF m # 0
        THEN Returned([error_type |-> "import_error",
                       error_message |-> <<Lit("Missing module: "), Lit(error_msg[m+1][2])>>,
                       error_location |-> None,
                       suggested_fix |-> Some(<<Lit("Add "), Quoted(error_msg[m+1][2]),
                                               Lit(" to your requirements.txt or install it with pip")>>),
                       confidence |-> 90])
        ELSE _generic_error_analysis(error_output)

\* A source line holds the text  assert  followed by a space.
HasAssertText(line) == line \in {"assert", "comment_assert", "string_assert"}

_handle_assertion_error(test_code, error_output, at) ==
    LET error_msg == Rest(error_output, at)
        hits == {i \in 1..Len(test_code) : HasAssertText(test_code[i])}
        first == IF hits = {} THEN 0
                 ELSE CHOOSE i \in hits : \A j \in hits : i <= j
    IN  Returned([error_type |-> "assertion_error",
                  error_message |-> <<Lit("Assertion failed: ")>> \o error_msg,
                  error_location |-> IF first = 0 THEN None ELSE Some(first),
                  suggested_fix |-> IF first = 0 THEN None
                                    ELSE Some(<<Lit("Review the assertion on line")>>),
                  confidence |-> 80])

\* The message holds  'T' object has no attribute 'a'.
AttrMatch(msg) ==
    \E i \in 1..(Len(msg) - 2) :
        /\ msg[i][1] = "quoted"
        /\ msg[i+1] = Lit(" object has no attribute ")
        /\ msg[i+2][1] = "quoted"

_handle_attribute_error(error_output, at) ==
    LET error_msg == Rest(error_output, at)
    IN  IF AttrMatch(error_msg)
        THEN Returned([error_type |-> "attribute_error",
                       error_message |-> error_msg,
                       error_location |-> None,
                       suggested_fix |-> Some(<<Lit("Check if the attribute name is correct")>>),
                       confidence |-> 85])
        ELSE _generic_error_analysis(error_output)

_handle_validation_error(error_output, at) ==
    LET error_msg == Rest(error_output, at)
        \* error_msg.split(quote) has an element [1] only if the message holds a quote
        quotes == {i \in 1..Len(error_msg) : error_msg[i][1] = "quoted"}
    IN  IF Contains(error_msg, Lit("This field cannot be blank"))
        THEN IF quotes = {} THEN Raised("IndexError")
             ELSE Returned([error_type |-> "validation_error",
                            error_message |-> error_msg,
                            error_location |-> None,
                            suggested_fix |-> Some(<<Lit("The field is required but was not provided.")>>),
                            confidence |-> 90])
        ELSE Returned([error_type |-> "validation_error",
                       error_message |-> error_msg,
                       error_location |-> None,
                       suggested_fix |-> Some(<<Lit("Review the validation constraints in your model.")>>),
                       confidence |-> 80])

\* getattr(self, f'_handle_{error_type}')(match)
Dispatch(kind, test_code, error_output, at) ==
    IF kind \notin Handlers THEN Raised("AttributeError:_handle")
    ELSE CASE kind = "import_error" -> _handle_import_error(error_output, at)
           [] kind = "assertion_error" -> _handle_assertion_error(test_code, error_output, at)
           [] kind = "attribute_error" -> _handle_attribute_error(error_output, at)
           [] kind = "validation_error" -> _handle_validation_error(error_output, at)

\* TestErrorAnalyzer(test_code, error_output).analyze(): the first kind of
\* the table whose pattern matches decides.
analyze(test_code, error_output) ==
    LET matching == {k \in 1..Len(ERROR_PATTERNS) :
                        FirstIndex(error_output, ERROR_PATTERNS[k].prefixes) # 0}
    IN  IF matching = {} THEN _generic_error_analysis(error_output)
        ELSE LET k == CHOOSE k \in matching : \A j \in matching : k <= j
             IN  Dispatch(ERROR_PATTERNS[k].kind, test_code, error_output,
                          FirstIndex(error_output, ERROR_PATTERNS[k].prefixes))

\* --------------------------------------------------------------- inputs

\* Test sources: a source is the sequence of its lines, each line one of
\*   import          an import statement
\*   assert          an assert statement
\*   comment_assert  a comment that mentions the text  assert
\*   string_assert   an assignment of a string literal that holds the text  assert
\*   paren_assert    an assert statement written  assert(x), without a space
\*   unittest_assert a call of self.assertEqual (no bare assert keyword)
\*   print_stmt      a Python 2 print statement, a syntax error for ast.parse
TestSources ==
    { <<"import">>,
      <<"import", "comment_assert", "assert">>,
      <<"import", "print_stmt">> }

SyntaxErrorLines == {"print_stmt"}

\* What a test process may write to stderr.
FailureTexts ==
    { <<>>,
      <<Lit("Test failed")>>,
      <<Lit("Traceback (most recent call last):"), NL, IND, Lit("File test.py"), NL,
        Lit("ModuleNotFoundError: "), Lit("No module named "), Quoted("widgetkit")>>,
      <<Lit("ImportError: "), Lit("cannot import name X")>>,
      <<Lit("AssertionError: "), Lit("expected 200 got 404")>>,
      <<Lit("AttributeError: "), Quoted("Widget"), Lit(" object has no attribute "), Quoted("nme")>>,
      <<Lit("TypeError: "), Lit("unsupported operand")>>,
      <<Lit("ValidationError: "), Lit("This field cannot be blank")>>,
      <<Lit("ValidationError: "), Lit("Enter a valid value")>> }

\* What a test process may write to stdout, or a container to its log.
Outputs == { <<>>, <<Lit("1 passed")>> }

\* Exit codes of the test process or of the container.
ExitCodes == {0, 1, 2}

TestName == "generated_test"

\* -------------------------------------------------------------- TestResult

TestResult(success, output, error, test_name, execution_mode) ==
    [success |-> success, output |-> output, error |-> error,
     test_name |-> test_name, error_analysis |-> None,
     resource_usage |-> None, test_file |-> None,
     execution_mode |-> execution_mode]

SandboxResult(success, output, error, exit_code) ==
    [success |-> success, output |-> output, error |-> error,
     exit_code |-> exit_code, resource_usage |-> None]

\* str(e) of the exceptions the model raises.
ExcText(exc) ==
    CASE exc = "AttributeError:_handle" ->
            <<Quoted("TestErrorAnalyzer"), Lit(" object has no attribute "), Quoted("_handle_x")>>
      [] exc = "AttributeError:_parse_coverage_output" ->
            <<Quoted("TestRunner"), Lit(" object has no attribute "), Quoted("_parse_coverage_output")>>
      [] exc = "IndexError" -> <<Lit("list index out of range")>>
      [] exc = "OSError" -> <<Lit("[Errno 28] No space left on device")>>
      [] exc = "ReadTimeout" -> <<Lit("Read timed out. (read timeout=30)")>>
      [] exc = "APIError" -> <<Lit("500 Server Error: Internal Server Error")>>
      [] OTHER -> <<Lit(exc)>>

\* ------------------------------------------------------------------ state

VARIABLES
    pc,             \* where the program is
    use_sandbox,    \* TestRunner.use_sandbox
    sandbox,        \* TestRunner.sandbox is not None
    warned,         \* a warning was printed by _init_sandbox
    probe,          \* what happened to the sandbox during construction
    system,         \* platform.system() of the host the runner is on
    test_code,      \* run_test's arguments
    retries,
    with_coverage,
    succeed_at,     \* the attempt at which the test process first exits 0 (0: never)
    attempt,        \* the loop variable of run_test
    calls,          \* number of backend invocations (_run_locally, _run_in_sandbox)
    sleeps,         \* number of asyncio.sleep(2) taken
    workspaces,     \* the workspace directories that exist under .test_tmp
    created,        \* the workspace directories _create_test_file made in this run
    sidecars,       \* coverage data files exist in the project
    test_file,      \* run_test's local test_file
    result,         \* run_test's local result
    exc,            \* the exception being handled (empty: none)
    after,          \* what the finally block of run_test is followed by
    ret,            \* the value a return statement inside the try block holds
    returned,       \* what run_test returned
    raised,         \* the exception run_test raised (empty: none)
    raw,            \* the last execution: backend, exit code, deadline expired
    container,      \* the state of the current attempt's container
    cvar,           \* run_test_in_sandbox's local container is not None
    sb_result,      \* run_test_in_sandbox's local result / return value
    ckwargs,        \* the keyword arguments the container was created with
    an_code,        \* TestErrorAnalyzer.test_code
    an_text,        \* TestErrorAnalyzer.error_output
    an_result,      \* what analyze() did: returned an analysis or raised
    max_workers,    \* run_tests_from_spec's max_workers
    batch_of,       \* the run_tests_from_spec call each run_single_test task belongs to
    semaphore,      \* the value of each call's asyncio.Semaphore
    task,           \* each run_single_test task: where it is, its attempt, its workspace
    now,            \* int(time.time())
    dirs,           \* the workspace directories that exist under .test_tmp
    coverage,       \* run_tests_from_spec's with_coverage
    cov_files,      \* the tasks whose coverage data file exists in the project
    results         \* what each run_tests_from_spec call has returned

runVars == << pc, use_sandbox, sandbox, warned, probe, system, test_code, retries,
           with_coverage, succeed_at, attempt, calls, sleeps, workspaces,
           created, sidecars, test_file, result, exc, after, ret, returned,
           raised, raw, container, cvar, sb_result, ckwargs >>

runnerVars == << use_sandbox, sandbox, warned, probe, system >>
argVars == << test_code, retries, with_coverage, succeed_at >>
sbVars == << container, cvar, sb_result, ckwargs >>
anVars == << an_code, an_text, an_result >>
batchVars == << max_workers, batch_of, semaphore, task, now, dirs, coverage,
               cov_files, results >>
vars == << runVars, anVars, batchVars >>

\* output is what the backend captured from the process or container.
\* orphans are the processes the attempt started that are still running
\* when the backend has returned from an expired deadline.
NoRaw ==
    [backend |-> "none", exit_code |-> None, timed_out |-> FALSE, output |-> None,
     orphans |-> {}]

\* A TestRunner not yet constructed.
RunInit ==
    /\ pc = "new"
    /\ use_sandbox = FALSE
    /\ sandbox = FALSE
    /\ warned = FALSE
    /\ probe = "none"
    /\ system = ""
    /\ test_code = <<>>
    /\ retries = 0
    /\ with_coverage = FALSE
    /\ succeed_at = 0
    /\ attempt = 0
    /\ calls = 0
    /\ sleeps = 0
    /\ workspaces = {}
    /\ created = {}
    /\ sidecars = FALSE
    /\ test_file = None
    /\ result = None
    /\ exc = ""
    /\ after = ""
    /\ ret = None
    /\ returned = None
    /\ raised = ""
    /\ raw = NoRaw
    /\ container = "none"
    /\ cvar = FALSE
    /\ sb_result = None
    /\ ckwargs = None

\* No analyzer has been constructed.
AnalyzerIdle ==
    /\ an_code = <<>>
    /\ an_text = <<>>
    /\ an_result = None

\* No run_tests_from_spec call is in progress.
BatchIdle ==
    /\ max_workers = 0
    /\ batch_of = <<>>
    /\ semaphore = <<>>
    /\ task = <<>>
    /\ now = 0
    /\ dirs = {}
    /\ coverage = FALSE
    /\ cov_files = {}
    /\ results = <<>>

Init == RunInit /\ AnalyzerIdle /\ BatchIdle

\* ------------------------------------------------- TestRunner.__init__

\* What can happen to the sandbox while the runner is constructed:
\*   ok               DockerSandbox built, validate_docker_setup says valid
\*   construct_fails  DockerSandbox(...) raises (no Docker daemon)
\*   invalid_yes      validation reports a problem, the user confirms to go on
\*   invalid_no       validation reports a problem, the user declines
\*   invalid_no_answer validation reports a problem, the prompt cannot be
\*                    answered (Confirm.ask raises, as on a closed stdin)
\*   validate_raises  validate_docker_setup itself raises
ProbeOutcomes ==
    {"ok", "construct_fails", "invalid_yes", "invalid_no", "invalid_no_answer",
     "validate_raises"}

\* _init_sandbox: the runner's fields after it, and whether sys.exit(1) ran.
\* SystemExit is no Exception, so the except clause does not take it.
_init_sandbox_forgets_downgrade(outcome) ==
    CASE outcome = "ok" ->
            [use_sandbox |-> TRUE, sandbox |-> TRUE, warned |-> FALSE, exit |-> FALSE]
      [] outcome = "construct_fails" ->
            [use_sandbox |-> TRUE, sandbox |-> FALSE, warned |-> TRUE, exit |-> FALSE]
      [] outcome = "invalid_yes" ->
            [use_sandbox |-> TRUE, sandbox |-> TRUE, warned |-> TRUE, exit |-> FALSE]
      [] outcome = "invalid_no" ->
            [use_sandbox |-> TRUE, sandbox |-> TRUE, warned |-> TRUE, exit |-> TRUE]
      [] outcome = "invalid_no_answer" ->
            [use_sandbox |-> TRUE, sandbox |-> TRUE, warned |-> TRUE, exit |-> FALSE]
      [] outcome = "validate_raises" ->
            [use_sandbox |-> TRUE, sandbox |-> TRUE, warned |-> TRUE, exit |-> FALSE]

_init_sandbox(outcome) ==
    CASE outcome = "ok" ->
            [use_sandbox |-> TRUE, sandbox |-> TRUE, warned |-> FALSE, exit |-> FALSE]
      [] outcome = "construct_fails" ->
            [use_sandbox |-> FALSE, sandbox |-> FALSE, warned |-> TRUE, exit |-> FALSE]
      [] outcome = "invalid_yes" ->
            [use_sandbox |-> FALSE, sandbox |-> TRUE, warned |-> TRUE, exit |-> FALSE]
      [] outcome = "invalid_no" ->
            [use_sandbox |-> TRUE, sandbox |-> TRUE, warned |-> TRUE, exit |-> TRUE]
      [] outcome = "invalid_no_answer" ->
            [use_sandbox |-> FALSE, sandbox |-> TRUE, warned |-> TRUE, exit |-> FALSE]
      [] outcome = "validate_raises" ->
            [use_sandbox |-> FALSE, sandbox |-> TRUE, warned |-> TRUE, exit |-> FALSE]

\* Values of platform.system().
Systems == {"Linux", "Windows"}

\* TestRunner(project_path, use_sandbox=FALSE)
NewLocal ==
    /\ pc = "new"
    /\ pc' = "idle"
    /\ probe' = "not_requested"
    /\ system' \in Systems
    /\ UNCHANGED << use_sandbox, sandbox, warned >>
    /\ UNCHANGED << argVars, attempt, calls, sleeps, workspaces, created, sidecars,
                    test_file, result, exc, after, ret, returned, raised, raw, sbVars >>
    /\ UNCHANGED << anVars, batchVars >>

\* TestRunner(project_path, use_sandbox=TRUE)
NewSandboxed ==
    /\ pc = "new"
    /\ \E outcome \in ProbeOutcomes :
         LET r == _init_sandbox(outcome)
         IN  /\ probe' = outcome
             /\ use_sandbox' = r.use_sandbox
             /\ sandbox' = r.sandbox
             /\ warned' = r.warned
             /\ pc' = IF r.exit THEN "exited" ELSE "idle"
    /\ system' \in Systems
    /\ UNCHANGED << argVars, attempt, calls, sleeps, workspaces, created, sidecars,
                    test_file, result, exc, after, ret, returned, raised, raw, sbVars >>
    /\ UNCHANGED << anVars, batchVars >>

\* ------------------------------------------------- TestRunner.run_test

\* validate_test: None when ast.parse accepts the source, a message otherwise.
validate_test_accepts_all(code) == None

validate_test(code) ==
    IF \E i \in 1..Len(code) : code[i] \in SyntaxErrorLines
    THEN Some(<<Lit("Syntax error in generated test: "), Lit("invalid syntax")>>)
    ELSE None

\* The sandbox backend is selected (lines 311 and 345).
SandboxSelected == use_sandbox /\ sandbox

Mode == IF SandboxSelected THEN "sandbox" ELSE "local"

\* run_test(test_code, test_name, with_coverage, retries): validation, and
\* the early return of a source that does not parse.
RunTest ==
    /\ pc = "idle"
    /\ \E code \in TestSources, r \in 0..MaxRetries, cov \in BOOLEAN :
       \E k \in 0..r :
         /\ test_code' = code
         /\ retries' = r
         /\ with_coverage' = cov
         /\ succeed_at' = k
         /\ LET validation_error == validate_test(code)
            IN  IF Truthy(validation_error)
                THEN /\ returned' = Some(TestResult(FALSE, <<>>, validation_error,
                                                    Some(TestName), "local"))
                     /\ pc' = "returned"
                ELSE /\ returned' = returned
                     /\ pc' = "loop"
    /\ UNCHANGED << runnerVars, attempt, calls, sleeps, workspaces, created, sidecars,
                    test_file, result, exc, after, ret, raised, raw, sbVars >>
    /\ UNCHANGED << anVars, batchVars >>

\* What _create_test_file can do: make the directory and write the file, fail
\* to make the directory, or make the directory and fail to write the file.
CreateOutcomes == {"ok", "mkdir_fails", "write_fails"}

\* for attempt in range(retries): ... test_file = self._create_test_file(...)
\* The call is made before the try statement is entered.
CreateTestFile ==
    /\ pc = "loop"
    /\ attempt < retries
    /\ \E outcome \in CreateOutcomes :
         /\ workspaces' = IF outcome = "mkdir_fails" THEN workspaces
                          ELSE workspaces \cup {attempt}
         /\ created' = IF outcome = "mkdir_fails" THEN created
                       ELSE created \cup {attempt}
         /\ IF outcome = "ok"
            THEN /\ test_file' = Some(attempt)
                 /\ pc' = "backend"
                 /\ raised' = raised
            ELSE /\ test_file' = test_file
                 /\ pc' = "raised"
                 /\ raised' = "OSError"
    /\ UNCHANGED << runnerVars, argVars, attempt, calls, sleeps, sidecars, result,
                    exc, after, ret, returned, raw, sbVars >>
    /\ UNCHANGED << anVars, batchVars >>

\* The loop is exhausted: return result (line 370).  With no iteration made
\* the name result is unbound.
LoopExit ==
    /\ pc = "loop"
    /\ attempt >= retries
    /\ IF result = None
       THEN /\ raised' = "UnboundLocalError"
            /\ pc' = "raised"
            /\ returned' = returned
       ELSE /\ returned' = result
            /\ pc' = "returned"
            /\ raised' = raised
    /\ UNCHANGED << runnerVars, argVars, attempt, calls, sleeps, workspaces, created,
                    sidecars, test_file, result, exc, after, ret, raw, sbVars >>
    /\ UNCHANGED << anVars, batchVars >>

\* ------------------------------------------------ TestRunner._run_locally

\* What the test subprocess can do.
\* children: the test process has started processes of its own that are
\* still running when the deadline expires.
LocalOutcomes ==
    { [kind |-> "spawn_fails", exit_code |-> 0, stdout |-> <<>>, stderr |-> <<>>,
       children |-> FALSE] }
    \cup [kind : {"timeout"}, exit_code : {0}, stdout : {<<>>}, stderr : {<<>>},
          children : BOOLEAN]
    \cup [kind : {"exited"}, exit_code : ExitCodes, stdout : Outputs, stderr : FailureTexts,
          children : {FALSE}]

\* The processes still running after the except asyncio.TimeoutError clause
\* around communicate(): on Windows process.kill() ends the test process
\* only (lines 585-588); elsewhere the process was started in a session of
\* its own (preexec_fn=os.setsid) and os.killpg ends its whole group
\* (lines 606-609).
kill_on_timeout(sys, running) ==
    IF sys = "Windows" THEN running \ {"test"} ELSE {}

\* The TestResult _run_locally returns.  With coverage requested the call of
\* self._parse_coverage_output raises AttributeError (TestRunner defines no
\* such method), which the method's own except clause turns into a result.
_run_locally(cov, o) ==
    CASE o.kind = "timeout" ->
            TestResult(FALSE, <<>>,
                       Some(<<Lit("Test execution timed out after "), Lit("300"), Lit(" seconds")>>),
                       None, "local")
      [] o.kind = "spawn_fails" ->
            TestResult(FALSE, <<>>,
                       Some(<<Lit("Local test execution failed: ")>> \o ExcText("OSError")),
                       None, "local")
      [] o.kind = "exited" /\ cov ->
            TestResult(FALSE, <<>>,
                       Some(<<Lit("Local test execution failed: ")>>
                            \o ExcText("AttributeError:_parse_coverage_output")),
                       None, "local")
      [] o.kind = "exited" /\ ~cov ->
            TestResult(o.exit_code = 0, o.stdout,
                       IF o.exit_code # 0 THEN Some(o.stderr) ELSE None,
                       None, "local")

\* The backend's result at this attempt agrees with the plan: it succeeds at
\* attempt number succeed_at and at no earlier one.  The plan is the
\* environment's (the side_effect list of the tests' mock backend); an
\* execution in which the backend cannot follow it is not continued.
Planned(success) == success <=> (attempt + 1 = succeed_at)

\* The exception _run_locally lets through to run_test for an outcome (empty:
\* none).  Its except clauses (lines 628-640) take asyncio.TimeoutError and
\* every other Exception, so nothing gets through.
_run_locally_raises_timeout_escapes(o) == IF o.kind = "timeout" THEN "TimeoutError" ELSE ""

_run_locally_raises(o) == ""

RunLocally ==
    /\ pc = "backend"
    /\ ~SandboxSelected
    /\ \E o \in LocalOutcomes :
         LET r == _run_locally(with_coverage, o)
             e == _run_locally_raises(o)
         IN  /\ Planned(e = "" /\ r.success)
             /\ result' = IF e = "" THEN Some(r) ELSE result
             /\ exc' = IF e = "" THEN exc ELSE e
             /\ pc' = IF e = "" THEN "post" ELSE "except"
             /\ raw' = [backend |-> "local",
                        exit_code |-> IF o.kind = "exited" THEN Some(o.exit_code) ELSE None,
                        timed_out |-> (o.kind = "timeout"),
                        output |-> IF o.kind = "exited" THEN Some(o.stdout) ELSE None,
                        orphans |-> IF o.kind = "timeout"
                                    THEN kill_on_timeout(system,
                                            IF o.children THEN {"test", "child"} ELSE {"test"})
                                    ELSE {}]
             /\ sidecars' = (sidecars \/ (with_coverage /\ o.kind # "spawn_fails"))
    /\ calls' = calls + 1
    /\ UNCHANGED << runnerVars, argVars, attempt, sleeps, workspaces, created,
                    test_file, after, ret, returned, raised, sbVars >>
    /\ UNCHANGED << anVars, batchVars >>

\* ------------------------------------- run_test: classification, handlers

\* The text  No module named 'm'  occurs in a message.
NamesModule(msg, m) ==
    \E i \in 1..(Len(msg) - 1) : msg[i] = Lit("No module named ") /\ msg[i+1] = Quoted(m)

\* _suggest_import_fix(error_message); the empty text when nothing applies.
_suggest_import_fix(msg) ==
    CASE NamesModule(msg, "django") ->
            <<Lit("Django is not installed. Install it with: pip install django")>>
      [] NamesModule(msg, "pytest") ->
            <<Lit("pytest is not installed. Install it with: pip install pytest pytest-django")>>
      [] NamesModule(msg, "widget_tweaks") ->
            <<Lit("django-widget-tweaks is not installed. Install it with: pip install django-widget-tweaks")>>
      [] NamesModule(msg, "mixer") ->
            <<Lit("django-mixer is not installed. Install it with: pip install mixer")>>
      [] /\ \E i \in 1..(Len(msg) - 2) :
               /\ msg[i] = Lit("ModuleNotFoundError: ")
               /\ msg[i+1] = Lit("No module named ")
               /\ msg[i+2][1] = "quoted" ->
            <<Lit("Module not found. This might be because the app is not in INSTALLED_APPS.")>>
      [] \E i \in 1..(Len(msg) - 3) :
               /\ msg[i] = Lit("Cannot import name ")
               /\ msg[i+1][1] = "quoted"
               /\ msg[i+2] = Lit(" from ")
               /\ msg[i+3][1] = "quoted" ->
            <<Lit("Could not import the name. The model may not exist or there is a circular import.")>>
      [] \E i \in 1..Len(msg) : msg[i] \in {Lit("ImportError: "), Lit("ModuleNotFoundError: ")} ->
            <<Lit("Check that the module is installed and in your Python path.")>>
      [] OTHER -> <<>>

\* if not result.success and result.error (line 322)
ShouldAnalyze(r) == ~r.success /\ Truthy(r.error)

\* Lines 313-330: the bookkeeping on the backend's result and its
\* classification.  exc names the exception the classifier raised, if any.
Classify_swallows(code, r0, mode, file) ==
    LET r == [r0 EXCEPT !.execution_mode = mode, !.test_file = file]
    IN  IF ~ShouldAnalyze(r) THEN [exc |-> "", value |-> r]
        ELSE LET a == analyze(code, r.error[1])
             IN  IF a.exc # "" THEN [exc |-> "", value |-> r]
                 ELSE IF a.value.error_type = "import_error"
                 THEN [exc |-> "",
                       value |-> [r EXCEPT !.error_analysis =
                                    Some([a.value EXCEPT !.suggested_fix =
                                            Some(_suggest_import_fix(a.value.error_message))])]]
                 ELSE [exc |-> "", value |-> [r EXCEPT !.error_analysis = Some(a.value)]]

Classify(code, r0, mode, file) ==
    LET r == [r0 EXCEPT !.execution_mode = mode, !.test_file = file]
    IN  IF ~ShouldAnalyze(r) THEN [exc |-> "", value |-> r]
        ELSE LET a == analyze(code, r.error[1])
             IN  IF a.exc # "" THEN [exc |-> a.exc, value |-> r]
                 ELSE IF a.value.error_type = "import_error"
                 THEN [exc |-> "",
                       value |-> [r EXCEPT !.error_analysis =
                                    Some([a.value EXCEPT !.suggested_fix =
                                            Some(_suggest_import_fix(a.value.error_message))])]]
                 ELSE [exc |-> "", value |-> [r EXCEPT !.error_analysis = Some(a.value)]]

\* Lines 313-336, after the backend returned.
AfterBackend ==
    /\ pc = "post"
    /\ LET c == Classify(test_code, result[1], Mode, test_file)
       IN  /\ result' = Some(c.value)
           /\ IF c.exc # ""
              THEN /\ exc' = c.exc
                   /\ pc' = "except"
                   /\ UNCHANGED << ret, after >>
              ELSE IF c.value.success
              THEN /\ ret' = Some(c.value)
                   /\ after' = "return"
                   /\ pc' = "finally"
                   /\ exc' = exc
              ELSE /\ pc' = "sleep"
                   /\ UNCHANGED << ret, after, exc >>
    /\ UNCHANGED << runnerVars, argVars, attempt, calls, sleeps, workspaces, created,
                    sidecars, test_file, returned, raised, raw, sbVars >>
    /\ UNCHANGED << anVars, batchVars >>

\* await asyncio.sleep(2) (line 336), taken after every failed attempt.
Sleep ==
    /\ pc = "sleep"
    /\ sleeps' = sleeps + 1
    /\ after' = "next"
    /\ pc' = "finally"
    /\ UNCHANGED << runnerVars, argVars, attempt, calls, workspaces, created, sidecars,
                    test_file, result, exc, ret, returned, raised, raw, sbVars >>
    /\ UNCHANGED << anVars, batchVars >>

\* Which except clause of run_test takes an exception raised in the try block.
run_test_handler_timeout_only(e) == IF e = "TimeoutError" THEN "timeout" ELSE "propagate"

run_test_handler(e) == IF e = "TimeoutError" THEN "timeout" ELSE "exception"

\* Lines 338-356: the except clauses of run_test.
Except ==
    /\ pc = "except"
    /\ LET h == run_test_handler(exc)
       IN  CASE h = "timeout" ->
                  /\ ret' = Some(TestResult(FALSE, <<>>,
                                 Some(<<Lit("Test timed out after "), Lit("300"), Lit(" seconds")>>),
                                 Some(TestName), Mode))
                  /\ after' = "return"
             [] h = "exception" ->
                  /\ ret' = Some(TestResult(FALSE, <<>>,
                                 Some(<<Lit("Test execution failed: ")>> \o ExcText(exc)),
                                 Some(TestName), Mode))
                  /\ after' = "return"
             [] h = "propagate" ->
                  /\ ret' = ret
                  /\ after' = "raise"
    /\ pc' = "finally"
    /\ UNCHANGED << runnerVars, argVars, attempt, calls, sleeps, workspaces, created,
                    sidecars, test_file, result, exc, returned, raised, raw, sbVars >>
    /\ UNCHANGED << anVars, batchVars >>

\* Clean up temporary files (lines 358-360): the workspace of the attempt's
\* test file is removed.
cleanup_temporary_files_keeps(ws, file) == ws

cleanup_temporary_files(ws, file) == IF file # None THEN ws \ {file[1]} ELSE ws

\* Lines 357-368: the finally clause removes the attempt's workspace and
\* sweeps the coverage files of the project; then the pending return, raise
\* or next iteration takes place.
Finally ==
    /\ pc = "finally"
    /\ workspaces' = cleanup_temporary_files(workspaces, test_file)
    /\ sidecars' = FALSE
    /\ CASE after = "return" ->
              /\ returned' = ret
              /\ pc' = "returned"
              /\ UNCHANGED << attempt, raised >>
         [] after = "next" ->
              /\ attempt' = attempt + 1
              /\ pc' = "loop"
              /\ UNCHANGED << returned, raised >>
         [] after = "raise" ->
              /\ raised' = exc
              /\ pc' = "raised"
              /\ UNCHANGED << attempt, returned >>
    /\ UNCHANGED << runnerVars, argVars, calls, sleeps, created, test_file, result,
                    exc, after, ret, raw, sbVars >>
    /\ UNCHANGED << anVars, batchVars >>

\* --------------------------------- _run_in_sandbox and DockerSandbox

\* Container states: none, CREATED, RUNNING, COMPLETED, TIMED_OUT, CRASHED,
\* REMOVED.

\* The result built by the except clause of run_test_in_sandbox (lines 78-85).
SandboxFailed(e) ==
    SandboxResult(FALSE, <<>>, Some(<<Lit("Sandbox execution failed: ")>> \o ExcText(e)), None)

\* The result built by the except clause of _execute_test (lines 266-272).
ExecuteFailed(e) ==
    SandboxResult(FALSE, <<>>, Some(<<Lit("Test execution failed: ")>> \o ExcText(e)), Some(-1))

\* _run_in_sandbox is entered and reads the test file back (lines 385-388);
\* a failure to read it is re-raised to run_test (lines 413-415).
SandboxEnter ==
    /\ pc = "backend"
    /\ SandboxSelected
    /\ calls' = calls + 1
    /\ container' = "none"
    /\ cvar' = FALSE
    /\ sb_result' = None
    /\ raw' = [backend |-> "sandbox", exit_code |-> None, timed_out |-> FALSE,
                output |-> None, orphans |-> {}]
    /\ ckwargs' = None
    /\ \E ok \in BOOLEAN :
         IF ok THEN /\ pc' = "sb_prepare"
                    /\ exc' = exc
         ELSE /\ Planned(FALSE)
              /\ pc' = "except"
              /\ exc' = "OSError"
    /\ UNCHANGED << runnerVars, argVars, attempt, sleeps, workspaces, created, sidecars,
                    test_file, result, after, ret, returned, raised >>
    /\ UNCHANGED << anVars, batchVars >>

\* run_test_in_sandbox: _prepare_test_archive (line 63).
SbPrepare ==
    /\ pc = "sb_prepare"
    /\ \E ok \in BOOLEAN :
         IF ok THEN /\ pc' = "sb_create"
                    /\ sb_result' = sb_result
         ELSE /\ pc' = "sb_finally"
              /\ sb_result' = Some(SandboxFailed("OSError"))
    /\ UNCHANGED << runnerVars, argVars, attempt, calls, sleeps, workspaces, created,
                    sidecars, test_file, result, exc, after, ret, returned, raised, raw,
                    container, cvar >>
    /\ UNCHANGED ckwargs
    /\ UNCHANGED << anVars, batchVars >>

\* SandboxConfig(django_settings=...): every other field has its default.
\* cpu_limit is 1.0.
SandboxConfig ==
    [image |-> "python:3.11-slim", memory_limit |-> "512m", cpu_limit |-> 1,
     timeout |-> 30, network_disabled |-> FALSE, read_only_root |-> TRUE]

\* The keyword arguments _create_container passes to client.containers.create.
\* volumes is the set of mounts (host path, bind path, mode); no tmpfs
\* keyword is passed, so the container has no tmpfs mounts.
_create_container(config) ==
    [image |-> config.image,
     command |-> <<"/app/run_tests.py">>,
     working_dir |-> "/app",
     mem_limit |-> config.memory_limit,
     cpu_quota |-> config.cpu_limit * 100000,
     network_disabled |-> config.network_disabled,
     read_only |-> config.read_only_root,
     environment |-> {<<"PYTHONUNBUFFERED", "1">>, <<"PYTHONDONTWRITEBYTECODE", "1">>,
                      <<"PYTHONPATH", "/app">>},
     volumes |-> {[host |-> "/app", bind |-> "/app", mode |-> "rw"]},
     tmpfs |-> {}]

\* _create_container: client.containers.create (lines 224-240).
SbCreate ==
    /\ pc = "sb_create"
    /\ \E ok \in BOOLEAN :
         IF ok THEN /\ container' = "CREATED"
                    /\ ckwargs' = Some(_create_container(SandboxConfig))
                    /\ pc' = "sb_put"
                    /\ sb_result' = sb_result
         ELSE /\ container' = container
              /\ ckwargs' = ckwargs
              /\ pc' = "sb_finally"
              /\ sb_result' = Some(SandboxFailed("APIError"))
    /\ UNCHANGED << runnerVars, argVars, attempt, calls, sleeps, workspaces, created,
                    sidecars, test_file, result, exc, after, ret, returned, raised, raw,
                    cvar >>
    /\ UNCHANGED << anVars, batchVars >>

\* _create_container: container.put_archive and the return (lines 243-244).
\* Only the return binds the local container of run_test_in_sandbox.
SbPutArchive ==
    /\ pc = "sb_put"
    /\ \E ok \in BOOLEAN :
         IF ok THEN /\ cvar' = TRUE
                    /\ pc' = "sb_start"
                    /\ sb_result' = sb_result
         ELSE /\ cvar' = cvar
              /\ pc' = "sb_finally"
              /\ sb_result' = Some(SandboxFailed("APIError"))
    /\ UNCHANGED << runnerVars, argVars, attempt, calls, sleeps, workspaces, created,
                    sidecars, test_file, result, exc, after, ret, returned, raised, raw,
                    container >>
    /\ UNCHANGED ckwargs
    /\ UNCHANGED << anVars, batchVars >>

\* _execute_test: container.start(), outside its try statement (line 248).
SbStart ==
    /\ pc = "sb_start"
    /\ \E ok \in BOOLEAN :
         IF ok THEN /\ container' = "RUNNING"
                    /\ pc' = "sb_wait"
                    /\ sb_result' = sb_result
         ELSE /\ container' = container
              /\ pc' = "sb_finally"
              /\ sb_result' = Some(SandboxFailed("APIError"))
    /\ UNCHANGED << runnerVars, argVars, attempt, calls, sleeps, workspaces, created,
                    sidecars, test_file, result, exc, after, ret, returned, raised, raw,
                    cvar >>
    /\ UNCHANGED ckwargs
    /\ UNCHANGED << anVars, batchVars >>

\* What the wait for the container and the retrieval of its logs can do.
WaitOutcomes ==
    { [kind |-> "timeout", exit_code |-> 0, logs |-> <<>>],
      [kind |-> "wait_fails", exit_code |-> 0, logs |-> <<>>] }
    \cup [kind : {"exited", "logs_fail"}, exit_code : ExitCodes, logs : Outputs]

\* The SandboxResult _execute_test returns once the container was started
\* (lines 250-272).
_execute_test(o) ==
    CASE o.kind = "exited" -> SandboxResult(o.exit_code = 0, o.logs, None, Some(o.exit_code))
      [] o.kind = "timeout" -> ExecuteFailed("ReadTimeout")
      [] o.kind = "wait_fails" -> ExecuteFailed("APIError")
      [] o.kind = "logs_fail" -> ExecuteFailed("APIError")

SbWait ==
    /\ pc = "sb_wait"
    /\ \E o \in WaitOutcomes :
         /\ (o.kind = "logs_fail" => o.logs = <<>>)
         /\ sb_result' = Some(_execute_test(o))
         /\ container' = CASE o.kind = "timeout" -> "TIMED_OUT"
                           [] o.kind = "wait_fails" -> "CRASHED"
                           [] OTHER -> "COMPLETED"
         /\ raw' = [backend |-> "sandbox",
                    exit_code |-> IF o.kind \in {"exited", "logs_fail"}
                                  THEN Some(o.exit_code) ELSE None,
                    timed_out |-> (o.kind = "timeout"),
                    output |-> IF o.kind = "exited" THEN Some(o.logs) ELSE None,
                    orphans |-> {}]
    /\ pc' = "sb_stats"
    /\ UNCHANGED << runnerVars, argVars, attempt, calls, sleeps, workspaces, created,
                    sidecars, test_file, result, exc, after, ret, returned, raised, cvar >>
    /\ UNCHANGED ckwargs
    /\ UNCHANGED << anVars, batchVars >>

\* What the harvest of the resource statistics can do: both calls work,
\* container.stats raises, or _parse_resource_stats fails on what it got.
StatsOutcomes == {"ok", "stats_fails", "parse_fails"}

\* run_test_in_sandbox: container.stats and _parse_resource_stats
\* (lines 72-76); a failure of container.stats reaches the except clause,
\* a failure inside _parse_resource_stats is taken there (lines 287-289) and
\* gives the empty dictionary.
SbStats ==
    /\ pc = "sb_stats"
    /\ \E o \in StatsOutcomes :
         sb_result' =
            CASE o = "ok" -> Some([sb_result[1] EXCEPT !.resource_usage = Some("stats")])
              [] o = "parse_fails" -> Some([sb_result[1] EXCEPT !.resource_usage = Some("empty")])
              [] o = "stats_fails" -> Some(SandboxFailed("APIError"))
    /\ pc' = "sb_finally"
    /\ UNCHANGED << runnerVars, argVars, attempt, calls, sleeps, workspaces, created,
                    sidecars, test_file, result, exc, after, ret, returned, raised, raw,
                    container, cvar >>
    /\ UNCHANGED ckwargs
    /\ UNCHANGED << anVars, batchVars >>

\* The TestResult _run_in_sandbox builds from a SandboxResult (lines 404-411).
FromSandbox(sr) ==
    [TestResult(sr.success, sr.output, sr.error, None, "local")
        EXCEPT !.resource_usage = sr.resource_usage]

\* The finally clause of run_test_in_sandbox (lines 86-92) removes the
\* container its local variable names; then _run_in_sandbox goes on
\* (lines 399-411).  With coverage requested and a non-empty output the call
\* of self._parse_coverage_output raises AttributeError, re-raised to run_test.
SbFinally ==
    /\ pc = "sb_finally"
    /\ container' = IF cvar THEN "REMOVED" ELSE container
    /\ IF with_coverage /\ sb_result[1].output # <<>>
       THEN /\ Planned(FALSE)
            /\ exc' = "AttributeError:_parse_coverage_output"
            /\ pc' = "except"
            /\ result' = result
       ELSE /\ Planned(sb_result[1].success)
            /\ result' = Some(FromSandbox(sb_result[1]))
            /\ pc' = "post"
            /\ exc' = exc
    /\ UNCHANGED << runnerVars, argVars, attempt, calls, sleeps, workspaces, created,
                    sidecars, test_file, after, ret, returned, raised, raw, cvar,
                    sb_result >>
    /\ UNCHANGED ckwargs
    /\ UNCHANGED << anVars, batchVars >>

\* ---------------------------------------------------------- specification

Next ==
    \/ NewLocal
    \/ NewSandboxed
    \/ RunTest
    \/ CreateTestFile
    \/ LoopExit
    \/ RunLocally
    \/ SandboxEnter
    \/ SbPrepare
    \/ SbCreate
    \/ SbPutArchive
    \/ SbStart
    \/ SbWait
    \/ SbStats
    \/ SbFinally
    \/ AfterBackend
    \/ Sleep
    \/ Except
    \/ Finally

Spec == Init /\ [][Next]_vars

\* ------------------------------------ TestErrorAnalyzer on its own inputs

\* Names of modules a test may fail to import.
ModuleNames == {"widgetkit", "django", "rest_framework", "apps.orders.models"}

\* The failure text  ModuleNotFoundError: No module named 'm'.
ModuleNotFoundText(m) ==
    <<Lit("ModuleNotFoundError: "), Lit("No module named "), Quoted(m)>>

\* Failure texts handed to the analyzer.
AnalyzerTexts ==
    FailureTexts
    \cup {ModuleNotFoundText(m) : m \in ModuleNames}
    \cup {<<Lit("Traceback (most recent call last):"), NL, IND, Lit("File test.py"), NL,
            Lit("AssertionError: "), Lit("expected 200 got 404")>>}
    \cup {<<Lit("ValueError: "), Lit("invalid literal for int()")>>,
           <<Lit("KeyError: "), Quoted("pk")>>,
           <<Lit("DoesNotExist: "), Lit("Order matching query does not exist.")>>,
           <<Lit("TemplateSyntaxError: "), Lit("Invalid block tag")>>,
           <<Lit("IntegrityError: "), Lit("NOT NULL constraint failed")>>,
           <<Lit("OperationalError: "), Lit("no such table")>>,
           <<Lit("ValidationError: "), Quoted("name"), Lit(": This field cannot be blank")>>,
           <<Lit("TypeError: "), Lit("unsupported operand"), NL,
             Lit("AssertionError: "), Lit("expected 200 got 404")>>}

\* Test sources handed to the analyzer.
AnalyzerSources ==
    TestSources
    \cup { <<"assert">>,
           <<"import", "assert">>,
           <<"import", "string_assert", "assert">>,
           <<"import", "paren_assert">>,
           <<"import", "assert", "paren_assert">> }

\* TestErrorAnalyzer(test_code, error_output)
AnalyzerInit ==
    /\ RunInit
    /\ BatchIdle
    /\ an_code \in AnalyzerSources
    /\ an_text \in AnalyzerTexts
    /\ an_result = None

\* analyzer.analyze()
Analyze ==
    /\ an_result = None
    /\ an_result' = Some(analyze(an_code, an_text))
    /\ UNCHANGED << runVars, batchVars, an_code, an_text >>

AnalyzerNext == Analyze

AnalyzerSpec == AnalyzerInit /\ [][AnalyzerNext]_vars

\* ------------------------------------------------- run_tests_from_spec

\* run_test's default number of attempts, which run_single_test relies on.
DefaultRetries == 3

Tasks == 1..NumTasks

\* Up to two run_tests_from_spec calls are in progress on the same project,
\* each with its own runner and its own semaphore; both runners use the
\* directory .test_tmp of the project.  The first call has the first k
\* tasks and the second call the others, if any.
Batches == {1, 2}

\* Values of max_workers.
WorkerLimits == {1, 2}

\* enumerate(test_codes, 1): the position of a task in its call's list.
IndexInBatch(i) == Cardinality({j \in 1..i : batch_of[j] = batch_of[i]})

\* The directory _create_test_file makes for a task's attempt: its name is
\* built from test_case_<index>, _attempt_<attempt> and int(time.time()).
test_run_dir(i, a) == [test_name |-> IndexInBatch(i), attempt |-> a, second |-> now]

\* asyncio.Semaphore: locked, acquire, release.
locked(v) == v = 0
acquire(v) == v - 1
release_lost(v) == v

release(v) == v + 1

\* A task whose run_test has returned (done) or raised: the locals of
\* run_test are gone.
Ended(how) == [pc |-> how, attempt |-> 0, dir |-> None]

\* A task holds a slot of its semaphore and is inside run_test.
Running(i) == task[i].pc \in {"backend", "sleep"}

\* The test codes of a call: the tasks made for it.
TasksIn(b) == {i \in Tasks : batch_of[i] = b}

\* The call has not returned yet.
Pending == [state |-> "pending", list |-> <<>>]

BatchStart(cov) ==
    /\ RunInit
    /\ AnalyzerIdle
    /\ max_workers \in WorkerLimits
    /\ \E k \in Tasks :
          batch_of = [i \in Tasks |-> IF i <= k THEN 1 ELSE 2]
    /\ semaphore = [b \in Batches |-> max_workers]
    /\ task = [i \in Tasks |-> [pc |-> "waiting", attempt |-> 0, dir |-> None]]
    /\ now = 0
    /\ dirs = {}
    /\ coverage = cov
    /\ cov_files = {}
    /\ results = [b \in Batches |-> Pending]

\* run_tests_from_spec(..., with_coverage=False)
BatchInit == BatchStart(FALSE)

\* for ext in ['.coverage', '.coverage.*', ...]: every coverage data file
\* found anywhere in the project is deleted (lines 362-368).
sweep_coverage_files(files) == {}

\* async with semaphore: the task takes a slot and run_test runs up to its
\* first await: the workspace of attempt 0 is made and the backend is
\* awaited.  When _create_test_file raises, run_test raises and the slot is
\* given back on leaving the async with block.
EnterSemaphore(i) ==
    /\ task[i].pc = "waiting"
    /\ ~locked(semaphore[batch_of[i]])
    /\ \E ok \in BOOLEAN :
         LET d == test_run_dir(i, 0)
             held == acquire(semaphore[batch_of[i]])
         IN  IF ok
             THEN /\ semaphore' = [semaphore EXCEPT ![batch_of[i]] = held]
                  /\ task' = [task EXCEPT ![i] = [pc |-> "backend", attempt |-> 0,
                                                   dir |-> Some(d)]]
                  /\ dirs' = dirs \cup {d}
             ELSE /\ semaphore' = [semaphore EXCEPT ![batch_of[i]] = release(held)]
                  /\ task' = [task EXCEPT ![i] = Ended("raised")]
                  /\ dirs' = dirs
    /\ UNCHANGED << runVars, anVars, max_workers, batch_of, now, coverage, cov_files,
                    results >>

\* The awaited backend returns.  A success, or an exception taken by the
\* except clauses of run_test, ends run_test: the finally clause removes the
\* workspace, sweeps the coverage files, and the slot is given back.  A
\* failure is followed by the await of asyncio.sleep(2).  With coverage the
\* test process (coverage run --parallel-mode) has left its own data file
\* in the project when it ends, and the attempt fails, the runner having
\* no _parse_coverage_output.
BackendReturns(i) ==
    /\ task[i].pc = "backend"
    /\ \E outcome \in {"success", "failure", "exception"} :
         /\ coverage => outcome = "failure"
         /\ IF outcome = "failure"
            THEN /\ task' = [task EXCEPT ![i].pc = "sleep"]
                 /\ cov_files' = IF coverage THEN cov_files \cup {i} ELSE cov_files
                 /\ UNCHANGED << semaphore, dirs >>
            ELSE /\ task' = [task EXCEPT ![i] = Ended("done")]
                 /\ dirs' = dirs \ {task[i].dir[1]}
                 /\ cov_files' = sweep_coverage_files(cov_files)
                 /\ semaphore' = [semaphore EXCEPT ![batch_of[i]] = release(@)]
    /\ UNCHANGED << runVars, anVars, max_workers, batch_of, now, coverage, results >>

\* asyncio.sleep(2) is over: the finally clause removes the workspace, and
\* either the next iteration makes its workspace and awaits the backend, or
\* the loop is exhausted and run_test returns.
SleepReturns(i) ==
    /\ task[i].pc = "sleep"
    /\ LET a == task[i].attempt + 1
           d == test_run_dir(i, a)
           swept == dirs \ {task[i].dir[1]}
       IN  IF a < DefaultRetries
           THEN \E ok \in BOOLEAN :
                  IF ok
                  THEN /\ task' = [task EXCEPT ![i] = [pc |-> "backend", attempt |-> a,
                                                        dir |-> Some(d)]]
                       /\ dirs' = swept \cup {d}
                       /\ semaphore' = semaphore
                  ELSE /\ task' = [task EXCEPT ![i] = Ended("raised")]
                       /\ dirs' = swept
                       /\ semaphore' = [semaphore EXCEPT ![batch_of[i]] = release(@)]
           ELSE /\ task' = [task EXCEPT ![i] = Ended("done")]
                /\ dirs' = swept
                /\ semaphore' = [semaphore EXCEPT ![batch_of[i]] = release(@)]
    /\ cov_files' = sweep_coverage_files(cov_files)
    /\ UNCHANGED << runVars, anVars, max_workers, batch_of, now, coverage, results >>

\* A second passes.
Tick ==
    /\ now < MaxClock
    /\ now' = now + 1
    /\ UNCHANGED << runVars, anVars, max_workers, batch_of, semaphore, task, dirs,
                    coverage, cov_files, results >>

\* The name of the TestResult that stands for the exception at index k of
\* the gathered list: test_case_<k+1>.
replacement_name_zero_based(k) == k

replacement_name(k) == k + 1

\* The element of the final list at index k (from 0) of the gathered list:
\* the TestResult of the task made for the test code at that position, or
\* the failing TestResult that replaces the exception the task ended with.
\* test_code tells which test code the element is about; test_name is the
\* name the replacement is given (a TestResult of run_test is passed on as
\* it is).
Element(b, k) ==
    LET i == CHOOSE j \in TasksIn(b) : IndexInBatch(j) = k + 1
    IN  IF task[i].pc = "raised"
        THEN [kind |-> "replaced", test_name |-> Some(replacement_name(k)),
               test_code |-> IndexInBatch(i)]
        ELSE [kind |-> "result", test_name |-> None, test_code |-> IndexInBatch(i)]

\* await asyncio.gather(*tasks, return_exceptions=True) is over, every task
\* of the call having ended; the exceptions are replaced and the list is
\* returned.  With coverage runner.combine_coverage() is called first, a
\* method TestRunner does not define.
Gather(b) ==
    /\ TasksIn(b) # {}
    /\ results[b].state = "pending"
    /\ \A i \in TasksIn(b) : task[i].pc \in {"done", "raised"}
    /\ results' = [results EXCEPT ![b] =
                      IF coverage THEN [state |-> "raised", list |-> <<>>]
                      ELSE [state |-> "returned",
                            list |-> [p \in 1..Cardinality(TasksIn(b)) |-> Element(b, p - 1)]]]
    /\ UNCHANGED << runVars, anVars, max_workers, batch_of, semaphore, task, now, dirs,
                    coverage, cov_files >>

BatchNext ==
    \/ \E i \in Tasks : EnterSemaphore(i)
    \/ \E i \in Tasks : BackendReturns(i)
    \/ \E i \in Tasks : SleepReturns(i)
    \/ Tick
    \/ \E b \in Batches : Gather(b)

BatchSpec == BatchInit /\ [][BatchNext]_vars

\* run_tests_from_spec(..., use_sandbox=False, with_coverage=True)
CoverageBatchInit == BatchStart(TRUE)

CoverageBatchSpec == CoverageBatchInit /\ [][BatchNext]_vars

\* ------------------------------------------------------------ properties

\* The source does not parse.
SyntaxInvalid(code) == \E i \in 1..Len(code) : code[i] \in SyntaxErrorLines

\* run_test was called with a source that parses.
ValidRun == test_code # <<>> /\ ~SyntaxInvalid(test_code)

\* The exceptions a backend wrapper raises to run_test.
BackendExceptions == {"OSError", "AttributeError:_parse_coverage_output"}

\* The exceptions the classifier raises.
ClassifierExceptions == {"AttributeError:_handle", "IndexError"}

\* C1: if the backend returns a failing result on every attempt, run_test
\* invokes the backend exactly retries times and returns the failing result
\* of the last attempt.  The code ends the run at the first attempt whose
\* failure text the classifier raises on.
C1_AllFailingUsesWholeBudget ==
    (/\ pc = "returned" /\ ValidRun /\ retries >= 1
     /\ succeed_at = 0 /\ exc \notin BackendExceptions)
    => (/\ calls = retries
        /\ result # None
        /\ ~returned[1].success)

\* C2: if the backend first succeeds at attempt k, after failing results at
\* the attempts before it, run_test invokes the backend exactly k times and
\* returns that attempt's result, with success true.  The code ends the run
\* before attempt k when the classifier raises on an earlier failure text.
C2_FirstSuccessAtK ==
    (/\ pc = "returned" /\ ValidRun
     /\ succeed_at >= 1 /\ exc \notin BackendExceptions)
    => (/\ calls = succeed_at
        /\ returned[1].success)

C4_NoWorkspaceLeft ==
    pc \in {"returned", "raised"} => (created \cap workspaces) = {}

\* C5: once run_test_in_sandbox has returned, the container it created is
\* removed.  The code leaves the container behind when put_archive raises.
C5_ContainerRemoved ==
    pc \notin {"sb_prepare", "sb_create", "sb_put", "sb_start", "sb_wait",
               "sb_stats", "sb_finally"}
    => container \in {"none", "REMOVED"}

\* C6: the returned result carries an error analysis exactly when it is a
\* failure and an attempt ran (stated here for the runs in which nothing
\* raised).  The code attaches none to a failure whose error field is empty
\* or absent.
C6_AnalysisIffFailedAttempt ==
    (pc = "returned" /\ exc = "")
    => (returned[1].error_analysis # None
        <=> (~returned[1].success /\ calls >= 1))

\* C7: the result of an executed attempt has success true exactly when the
\* exit code of the process or container is zero.  The code reports a
\* failure for exit code zero when coverage parsing, log retrieval or
\* stats retrieval raises.
C7_SuccessIffExitZero ==
    pc = "post" => (result[1].success <=> raw.exit_code = Some(0))

\* C8: the result returned for an attempt whose deadline expired is a failure
\* classified as a timeout.  The code classifies the timeout text as
\* unknown_error.
C8_TimeoutKind ==
    (pc = "returned" /\ calls >= 1 /\ raw.timed_out)
    => (/\ ~returned[1].success
        /\ returned[1].error_analysis # None
        /\ returned[1].error_analysis[1].error_type = "timeout")

\* The sandbox was asked for and is not available.
SandboxUnavailable ==
    probe \in {"construct_fails", "invalid_yes", "invalid_no", "invalid_no_answer",
               "validate_raises"}

\* Every attempt ran, and every result was produced, on the local backend.
AllLocal ==
    /\ ~SandboxSelected
    /\ raw.backend # "sandbox"
    /\ container = "none"
    /\ (result # None => result[1].execution_mode = "local")
    /\ (returned # None => returned[1].execution_mode = "local")

C10_NoRaiseForTestFailure ==
    /\ raised \notin ClassifierExceptions
    /\ after # "raise"
    /\ (pc = "raised" => raised \in {"OSError", "UnboundLocalError"})
    /\ ((pc \in {"except", "finally"} /\ exc \in ClassifierExceptions)
         => ~result[1].success)

C10_Witness ==
    /\ pc = "returned"
    /\ exc \in ClassifierExceptions
    /\ raw.exit_code # None /\ raw.exit_code # Some(0)
    /\ ~returned[1].success

\* C11: when run_test returns after an attempt whose backend captured output,
\* the returned TestResult carries exactly that output, whether or not the
\* classification of the failure succeeded.
C11_OutputPreserved ==
    (pc = "returned" /\ calls >= 1 /\ raw.output # None)
        => returned[1].output = raw.output[1]

\* C12: a container created with the default SandboxConfig has its network
\* disabled, a read-only root filesystem, a tmpfs mounted at /tmp and every
\* host directory mounted read-only.
C12_ContainerSecurityFeatures ==
    ckwargs # None =>
        /\ ckwargs[1].network_disabled
        /\ ckwargs[1].read_only
        /\ "/tmp" \in ckwargs[1].tmpfs
        /\ \A v \in ckwargs[1].volumes : v.mode = "ro"

\* An attempt is between the creation of its workspace and its clean-up.
InAttempt == pc \notin {"new", "idle", "exited", "loop", "returned", "raised"}

\* C18: a timed-out attempt is a failed attempt like any other: the loop goes
\* on to the next iteration after it, and a run that returns after a timed-out
\* attempt has made exactly retries attempts and reports failure.  This holds
\* on both backends.
C18_TimeoutCountsAgainstBudget ==
    /\ (pc \in {"post", "sleep"} /\ raw.timed_out)
            => (~result[1].success /\ attempt + 1 = calls)
    /\ (pc = "finally" /\ raw.timed_out) => after = "next"
    /\ (pc = "returned" /\ calls >= 1 /\ raw.timed_out)
            => (calls = retries /\ attempt = retries /\ ~returned[1].success)

\* A second attempt is about to call the sandbox backend after the first one
\* timed out there.
C18_Witness ==
    /\ pc = "backend"
    /\ attempt >= 1
    /\ raw.timed_out
    /\ raw.backend = "sandbox"
    /\ SandboxSelected

\* C19: attempts are strictly sequential.  The only workspace that exists
\* during an attempt is that attempt's, none exists between two attempts, the
\* backend has been invoked once per finished attempt and at most once more
\* for the one in flight, and no workspace of a later attempt has been made.
C19_AttemptsSequential ==
    /\ (InAttempt => workspaces = {attempt})
    /\ (pc = "loop" => (workspaces = {} /\ calls = attempt))
    /\ calls \in {attempt, attempt + 1}
    /\ (pc \in {"post", "sleep", "finally"} => calls = attempt + 1)
    /\ \A i \in created : i <= attempt

\* The third attempt is in flight and the workspaces of the first two are gone.
C19_Witness ==
    /\ pc = "post"
    /\ attempt = 2
    /\ created = {0, 1, 2}
    /\ workspaces = {2}
    /\ calls = 3

\* C20: when the returned result was classified as import_error for a failure
\* text that names a missing module, its suggested fix is a non-empty hint
\* that names that module.
C20_EnrichedImportFix ==
    (/\ pc = "returned"
     /\ returned[1].error_analysis # None
     /\ returned[1].error_analysis[1].error_type = "import_error"
     /\ Contains(returned[1].error[1], Quoted("widgetkit")))
        => /\ returned[1].error_analysis[1].suggested_fix # None
           /\ returned[1].error_analysis[1].suggested_fix[1] # <<>>
           /\ Contains(returned[1].error_analysis[1].suggested_fix[1], Quoted("widgetkit"))

\* C13: for every module name M, analyze on the failure text
\* ModuleNotFoundError: No module named 'M'  returns kind import_error with
\* confidence 0.9 and a suggested fix that mentions M.
C13_MissingModuleClassified ==
    \A m \in ModuleNames :
        (an_result # None /\ an_text = ModuleNotFoundText(m))
            => /\ an_result[1].exc = ""
               /\ an_result[1].value.error_type = "import_error"
               /\ an_result[1].value.confidence = 90
               /\ an_result[1].value.suggested_fix # None
               /\ \E i \in 1..Len(an_result[1].value.suggested_fix[1]) :
                     an_result[1].value.suggested_fix[1][i][2] = m

\* The analyzer has classified the failure to import a dotted module.
C13_Witness ==
    /\ an_result # None
    /\ an_text = ModuleNotFoundText("apps.orders.models")
    /\ an_result[1].value.error_type = "import_error"

\* The line is an assert statement.
IsAssertStatement(line) == line \in {"assert", "paren_assert"}

\* The failure text holds an AssertionError and no earlier pattern's name.
IsAssertionFailure(text) ==
    /\ Contains(text, Lit("AssertionError: "))
    /\ ~Contains(text, Lit("ImportError: "))
    /\ ~Contains(text, Lit("ModuleNotFoundError: "))

\* C14: for an AssertionError failure text, analyze returns kind
\* assertion_error and, when the source has an assert statement, a location
\* whose line number is the line of the first assert statement: a line that
\* only mentions assert in a comment or string is not reported, and an
\* assert statement is reported whatever its form.
C14_FirstAssertStatementLocated ==
    (an_result # None /\ IsAssertionFailure(an_text))
        => /\ an_result[1].exc = ""
           /\ an_result[1].value.error_type = "assertion_error"
           /\ \A i \in 1..Len(an_code) :
                 (/\ IsAssertStatement(an_code[i])
                  /\ \A j \in 1..(i-1) : ~IsAssertStatement(an_code[j]))
                    => an_result[1].value.error_location = Some(i)

\* The tasks of a run_tests_from_spec call that are inside run_test.
Active(b) == {i \in Tasks : batch_of[i] = b /\ Running(i)}

\* C16: in every run_tests_from_spec call at most max_workers run_test
\* invocations are active at any moment, and the free slots of the semaphore
\* are exactly the ones not held by an active invocation: a slot is given
\* back whenever its run_test returns or raises.
C16_AtMostMaxWorkersActive ==
    \A b \in Batches :
        /\ Cardinality(Active(b)) <= max_workers
        /\ semaphore[b] = max_workers - Cardinality(Active(b))

\* With one slot: one task has finished and given its slot back, a second
\* one holds it, and a third one waits.
C16_Witness ==
    /\ max_workers = 1
    /\ \E i, j, k \in Tasks :
          /\ batch_of[i] = 1 /\ batch_of[j] = 1 /\ batch_of[k] = 1
          /\ task[i].pc \in {"done", "raised"}
          /\ Running(j)
          /\ task[k].pc = "waiting"
          /\ locked(semaphore[1])

\* C17: no two attempts that are in progress use the same workspace
\* directory, and the workspace of an attempt in progress exists.
C17_WorkspacesExclusive ==
    /\ \A i, j \in Tasks :
          (i # j /\ Running(i) /\ Running(j)) => task[i].dir # task[j].dir
    /\ \A i \in Tasks : Running(i) => task[i].dir[1] \in dirs

\* The first kind, in the order of ERROR_PATTERNS, whose pattern matches a
\* text; unknown_error when none does.
FirstMatchingKind(text) ==
    LET matching == {k \in 1..Len(ERROR_PATTERNS) :
                        \E i \in 1..Len(text) : text[i] \in ERROR_PATTERNS[k].prefixes}
    IN  IF matching = {} THEN "unknown_error"
        ELSE ERROR_PATTERNS[CHOOSE k \in matching : \A j \in matching : k <= j].kind

\* C21: for every failure text analyze returns an ErrorAnalysis, and its
\* kind is the first kind of the table whose pattern matches the text, or
\* unknown_error when no pattern matches.
C21_FirstMatchDecidesKind ==
    an_result # None
        => /\ an_result[1].exc = ""
           /\ an_result[1].value.error_type = FirstMatchingKind(an_text)

\* C22: when the container has run to its end, the SandboxResult of
\* run_test_in_sandbox has the success flag, the output and the exit code of
\* that execution, whatever happened to the harvest of the statistics.
C22_StatsBestEffort ==
    (pc = "sb_finally" /\ raw.exit_code # None /\ raw.output # None)
        => /\ sb_result[1].success = (raw.exit_code = Some(0))
           /\ sb_result[1].output = raw.output[1]
           /\ sb_result[1].exit_code = raw.exit_code

\* C24: in a run that returns after n attempts the 2-second delay has been
\* taken n-1 times: between attempts, never after the last one.
C24_DelayBetweenAttemptsOnly ==
    (pc = "returned" /\ calls >= 1) => sleeps = calls - 1

\* C25: every TestResult run_test returns after an attempt names the test
\* (its test_name, or the path of its test file, which holds the name) and
\* the attempt that produced it (the path of its test file, the only field
\* that holds an attempt index).
C25_ResultCarriesIdentity ==
    (pc = "returned" /\ calls >= 1)
        => /\ (returned[1].test_name = Some(TestName) \/ returned[1].test_file # None)
           /\ returned[1].test_file # None

\* The test subprocess of the last attempt could not be started.
SpawnFailed == raw.backend = "local" /\ raw.exit_code = None /\ ~raw.timed_out

\* C26: when the local test subprocess cannot be started, run_test raises:
\* it neither goes on to the delay and the next attempt nor returns a result.
C26_LocalImpossibleRaises ==
    SpawnFailed => pc \notin {"sleep", "loop", "returned"}

\* C29: with a source that parses and retries = 0, run_test ends by
\* returning a TestResult, having made no backend call and no workspace.
C29_ZeroBudgetReturns ==
    (ValidRun /\ retries = 0 /\ pc \in {"returned", "raised"})
        => (pc = "returned" /\ returned # None /\ calls = 0 /\ created = {})

\* The classifier raises on the failure text of the last backend result.
ClassifierRaises ==
    /\ result # None
    /\ ShouldAnalyze(result[1])
    /\ analyze(test_code, result[1].error[1]).exc # ""

\* C28: an exception raised during an attempt, by the backend wrapper or by
\* the classifier, ends the run at that attempt: the exception is handled,
\* no further backend call is made although budget may remain, and run_test
\* returns a failing TestResult without ErrorAnalysis.
C28_ExceptionEndsRun ==
    /\ (exc # "" => pc \in {"except", "finally", "returned"})
    /\ ((ClassifierRaises /\ pc # "post") => exc \in ClassifierExceptions)
    /\ ((pc = "returned" /\ exc # "")
            => /\ ~returned[1].success
               /\ returned[1].error_analysis = None
               /\ calls = attempt + 1)

\* The classifier raised at the first of three attempts and run_test returned.
C28_Witness ==
    /\ pc = "returned"
    /\ ClassifierRaises
    /\ exc \in ClassifierExceptions
    /\ retries = 3
    /\ calls = 1

\* C27: the coverage data file of an attempt that is still in progress (its
\* test process has ended and run_test has not yet reached its own sweep) is
\* in the project: no other attempt's sweep has deleted it.
C27_CoverageFilesSafe ==
    \A i \in Tasks : (coverage /\ task[i].pc = "sleep") => i \in cov_files

\* C30: a call that has returned made every one of its tasks end, and its
\* list has one element per test code, the element at position p being about
\* test code p; a task that raised is replaced at its own position by a
\* failing TestResult named after that position, and only such a task is.
C30_ResultsInInputOrder ==
    \A b \in Batches :
        /\ results[b].state # "raised"
        /\ results[b].state = "returned"
             => /\ \A i \in TasksIn(b) : task[i].pc \in {"done", "raised"}
                /\ Len(results[b].list) = Cardinality(TasksIn(b))
                /\ \A i \in TasksIn(b) :
                      LET e == results[b].list[IndexInBatch(i)]
                      IN  /\ e.test_code = IndexInBatch(i)
                          /\ (e.kind = "replaced") = (task[i].pc = "raised")
                          /\ (e.kind = "replaced") => (e.test_name = Some(IndexInBatch(i)))

\* A call has returned three elements, the second one being the replacement
\* of an exception and the others results of run_test.
C30_Witness ==
    /\ results[1].state = "returned"
    /\ Len(results[1].list) = 3
    /\ results[1].list[1].kind = "result"
    /\ results[1].list[2].kind = "replaced"
    /\ results[1].list[3].kind = "result"

\* C23: when _run_locally has returned from an expired deadline, no process
\* the attempt started is still running, on any platform.
C23_ProcessGroupTerminated ==
    (raw.backend = "local" /\ raw.timed_out) => raw.orphans = {}

====
